---- MODULE Spec2Model ----
(***************************************************************************)
(* corncobs: Consistent Overhead Byte Stuffing.  A model of src/src/lib.rs: *)
(* the size model, the bulk encoder, the lazy encoder and its state        *)
(* machine, the bulk decoder and the in-place decoder, driven the way the  *)
(* tests and the fuzz drivers of the repository drive them.  The           *)
(* incremental Decoder, which the tests use and lib.rs does not contain,   *)
(* is modelled from section 4.6 of its specification.                      *)
(*                                                                         *)
(* Rust slices are sequences (1-based here, 0-based in the source).        *)
(* Option<T> is a sequence of length at most one.  A panic (a failed       *)
(* bounds check of a slice operation) is an explicit outcome.              *)
(***************************************************************************)
EXTENDS Integers, Sequences, FiniteSets, TLC

\* ------------------------------------------------------------- constants

ZERO == 0

MAX_RUN == 254

\* u8 arithmetic is modulo 2^8
U8 == 256

\* usize arithmetic is modulo 2^16 on the narrowest targets Rust supports;
\* the wider ones only move the same boundary further out
USIZE == 65536

\* ---------------------------------------------------------------- bounds

\* longest message enumerated byte by byte
MaxShortLen == 3

\* longest prefix and suffix put around a long zero-free span
MaxAffix == 1

\* a long zero-free span has up to MaxChunks * MAX_RUN + 1 bytes
MaxChunks == 2

\* truncations cut a frame within CutSlack bytes of a run boundary
CutSlack == 1

\* longest arbitrary (not encoded) decoder input enumerated byte by byte
MaxFuzzLen == 4

\* an output buffer is up to MaxUnder bytes shorter than max_encoded_len
MaxUnder == 2

\* an output buffer is up to MaxOver bytes longer than max_encoded_len
MaxOver == 1

\* raw lengths within MaxRawLen of zero and of usize::MAX are enumerated
MaxRawLen == 600

\* --------------------------------------------------------------- helpers

None == << >>

Some(x) == << x >>

Min(a, b) == IF a < b THEN a ELSE b

MinOf(S) == CHOOSE x \in S : \A y \in S : x <= y

\* vec![v; n]
Vec(v, n) == [i \in 1 .. n |-> v]

\* all sequences over S of length at most n
RECURSIVE SeqsUpTo(_, _)
SeqsUpTo(S, n) ==
    IF n = 0 THEN { << >> }
    ELSE LET shorter == SeqsUpTo(S, n - 1)
         IN  shorter \cup { Append(s, x) : s \in shorter, x \in S }

\* ------------------------------------------------------------ size model

max_encoded_len_floor(raw_len) ==
    LET overhead == IF raw_len = 0 THEN 1 ELSE raw_len \div 254
    IN  raw_len + overhead + 1

max_encoded_len(raw_len) ==
    LET overhead == IF raw_len = 0 THEN 1 ELSE (raw_len + 253) \div 254
    IN  raw_len + overhead + 1

max_encoded_len_usize_floor(raw_len) ==
    LET overhead == IF raw_len = 0 THEN 1 ELSE raw_len \div 254
        s1 == raw_len + overhead
        s2 == (s1 % USIZE) + 1
    IN  [value |-> s2 % USIZE,
         overflow |-> s1 >= USIZE \/ s2 >= USIZE]

\* max_encoded_len on usize: [value, overflow]; value is what wrapping
\* arithmetic leaves, overflow says that one of the three additions wrapped
max_encoded_len_usize(raw_len) ==
    LET t == raw_len + 253
        overhead == IF raw_len = 0 THEN 1 ELSE (t % USIZE) \div 254
        s1 == raw_len + overhead
        s2 == (s1 % USIZE) + 1
    IN  [value |-> s2 % USIZE,
         overflow |-> (raw_len # 0 /\ t >= USIZE) \/ s1 >= USIZE
                      \/ s2 >= USIZE]

\* ---------------------------------------------------------- length codes

encode_len_no_bias(len) == len % U8

\* len.wrapping_add(1) as u8
encode_len(len) == (len + 1) % U8

decode_len_one_is_end(code) == IF code <= 1 THEN None ELSE Some(code - 1)

\* usize::from(code).checked_sub(1)
decode_len(code) == IF code = 0 THEN None ELSE Some(code - 1)

\* ---------------------------------------------------------- bulk encoder

\* bytes.split(|&b| b == ZERO): the runs between zero bytes; n zeros give
\* n + 1 runs, empty ones included
RECURSIVE split(_)
split(bytes) ==
    LET zs == { i \in 1 .. Len(bytes) : bytes[i] = ZERO }
    IN  IF zs = {} THEN << bytes >>
        ELSE LET z == MinOf(zs)
             IN  << SubSeq(bytes, 1, z - 1) >>
                 \o split(SubSeq(bytes, z + 1, Len(bytes)))

RECURSIVE encode_chunks_cap_255(_, _)
encode_chunks_cap_255(run, st) ==
    LET chunk_len == Min(Len(run), MAX_RUN + 1)
    IN  IF st.pos + chunk_len + 1 > Len(st.output)
        THEN [st EXCEPT !.panic = TRUE]
        ELSE LET out2 == [i \in 1 .. Len(st.output) |->
                            IF i = st.pos + 1 THEN encode_len(chunk_len)
                            ELSE IF i > st.pos + 1 /\ i <= st.pos + 1 + chunk_len
                                 THEN run[i - st.pos - 1]
                                 ELSE st.output[i]]
                 new_run == SubSeq(run, chunk_len + 1, Len(run))
                 st2 == [output |-> out2, pos |-> st.pos + chunk_len + 1,
                         panic |-> FALSE]
             IN  IF new_run = << >> THEN st2
                 ELSE encode_chunks_cap_255(new_run, st2)

\* The inner loop of encode_buf on one run.  st.pos is how much of the
\* output has been lopped off so far (orig_size - output.len()).
RECURSIVE encode_chunks(_, _)
encode_chunks(run, st) ==
    LET chunk_len == Min(Len(run), MAX_RUN)
    IN  IF st.pos + chunk_len + 1 > Len(st.output)
        THEN [st EXCEPT !.panic = TRUE]           \* split_at_mut: mid > len
        ELSE LET out2 == [i \in 1 .. Len(st.output) |->
                            IF i = st.pos + 1 THEN encode_len(chunk_len)
                            ELSE IF i > st.pos + 1 /\ i <= st.pos + 1 + chunk_len
                                 THEN run[i - st.pos - 1]
                                 ELSE st.output[i]]
                 new_run == SubSeq(run, chunk_len + 1, Len(run))
                 st2 == [output |-> out2, pos |-> st.pos + chunk_len + 1,
                         panic |-> FALSE]
             IN  IF new_run = << >> THEN st2 ELSE encode_chunks(new_run, st2)

\* the outer loop of encode_buf over the runs
RECURSIVE encode_runs(_, _)
encode_runs(runs, st) ==
    IF runs = << >> \/ st.panic THEN st
    ELSE encode_runs(Tail(runs), encode_chunks(Head(runs), st))

encode_buf_count_off(bytes, output) ==
    LET st == encode_runs(split(bytes), [output |-> output, pos |-> 0,
                                         panic |-> FALSE])
    IN  IF st.panic \/ st.pos >= Len(output)
        THEN [panic |-> TRUE, output |-> st.output, n |-> 0]
        ELSE [panic |-> FALSE,
              output |-> [st.output EXCEPT ![st.pos + 1] = 0],
              n |-> st.pos]

encode_buf_clears_rest(bytes, output) ==
    LET st == encode_runs(split(bytes), [output |-> output, pos |-> 0,
                                         panic |-> FALSE])
    IN  IF st.panic \/ st.pos >= Len(output)
        THEN [panic |-> TRUE, output |-> st.output, n |-> 0]
        ELSE [panic |-> FALSE,
              output |-> [i \in 1 .. Len(output) |->
                            IF i > st.pos THEN 0 ELSE st.output[i]],
              n |-> st.pos + 1]

\* encode_buf(bytes, output): [panic, output, n]; n is the returned count
encode_buf(bytes, output) ==
    LET st == encode_runs(split(bytes), [output |-> output, pos |-> 0,
                                         panic |-> FALSE])
    IN  IF st.panic \/ st.pos >= Len(output)      \* output[0] on an empty slice
        THEN [panic |-> TRUE, output |-> st.output, n |-> 0]
        ELSE [panic |-> FALSE,
              output |-> [st.output EXCEPT ![st.pos + 1] = 0],
              n |-> st.pos + 1]

\* a call of encode_buf in a build with or without debug assertions: the
\* debug_assert! on the size of output comes before anything is written
encode_buf_call(debug, bytes, output) ==
    IF debug /\ ~(Len(output) >= max_encoded_len(Len(bytes)))
    THEN [panic |-> TRUE, output |-> output, n |-> 0]
    ELSE encode_buf(bytes, output)

\* ---------------------------------------------------------- lazy encoder

Begin(bytes) == [tag |-> "Begin", bytes |-> bytes]

Run(b, run, rest) == [tag |-> "Run", b |-> b, run |-> run, rest |-> rest]

End == [tag |-> "End"]

take_run_always_drops(bytes) ==
    LET max_len == Min(Len(bytes), MAX_RUN)
        zs == { i \in 1 .. max_len : bytes[i] = ZERO }
        run_len == IF zs = {} THEN max_len ELSE MinOf(zs) - 1
        run == SubSeq(bytes, 1, run_len)
        rest == SubSeq(bytes, run_len + 1, Len(bytes))
    IN  [run |-> run,
         rest |-> IF rest = << >> THEN None ELSE Some(Tail(rest))]

\* take_run(bytes): [run, rest], rest an Option
take_run(bytes) ==
    LET max_len == Min(Len(bytes), MAX_RUN)
        zs == { i \in 1 .. max_len : bytes[i] = ZERO }
        run_len == IF zs = {} THEN max_len ELSE MinOf(zs) - 1
        run == SubSeq(bytes, 1, run_len)
        rest == SubSeq(bytes, run_len + 1, Len(bytes))
    IN  [run |-> run,
         rest |-> IF rest = << >> THEN None
                  ELSE IF run_len = MAX_RUN THEN Some(rest)
                  ELSE Some(Tail(rest))]

\* debug_assert_eq!(rest[0], 0) of take_run: TRUE where it is not reached
\* and where it holds, FALSE where it fails
take_run_debug_assert(bytes) ==
    LET max_len == Min(Len(bytes), MAX_RUN)
        zs == { i \in 1 .. max_len : bytes[i] = ZERO }
        run_len == IF zs = {} THEN max_len ELSE MinOf(zs) - 1
        rest == SubSeq(bytes, run_len + 1, Len(bytes))
    IN  rest = << >> \/ run_len = MAX_RUN \/ rest[1] = 0

new_run_state_skips_empty(rest) ==
    IF rest # None /\ rest[1] # << >> THEN Begin(rest[1]) ELSE End

new_run_state(rest) ==
    IF rest # None THEN Begin(rest[1]) ELSE End

next_run_state(run, rest) ==
    IF run # << >> THEN Run(Head(run), Tail(run), rest)
    ELSE new_run_state(rest)

EncodeState_next_stays_at_end(self) ==
    CASE self.tag = "Begin" ->
            LET t == take_run(self.bytes)
            IN  [b |-> encode_len(Len(t.run)),
                 s |-> Some(next_run_state(t.run, t.rest))]
      [] self.tag = "Run" ->
            [b |-> self.b, s |-> Some(next_run_state(self.run, self.rest))]
      [] self.tag = "End" ->
            [b |-> 0, s |-> Some(End)]

\* EncodeState::next(self): [b, s], s an Option
EncodeState_next(self) ==
    CASE self.tag = "Begin" ->
            LET t == take_run(self.bytes)
            IN  [b |-> encode_len(Len(t.run)),
                 s |-> Some(next_run_state(t.run, t.rest))]
      [] self.tag = "Run" ->
            [b |-> self.b, s |-> Some(next_run_state(self.run, self.rest))]
      [] self.tag = "End" ->
            [b |-> 0, s |-> None]

\* the closure of encode_iter: [item, state], both Options
encode_iter_next(state) ==
    IF state = None THEN [item |-> None, state |-> None]       \* state?
    ELSE LET r == EncodeState_next(state[1])
         IN  [item |-> Some(r.b), state |-> r.s]

\* at most n calls of next(), n >= 1: [items, state]
RECURSIVE drain(_, _)
drain(state, n) ==
    IF n = 1
    THEN LET r == encode_iter_next(state)
         IN  [items |-> r.item, state |-> r.state]
    ELSE LET a == drain(state, n \div 2)
         IN  IF a.state = None THEN a
             ELSE LET b == drain(a.state, n - n \div 2)
                  IN  [items |-> a.items \o b.items, state |-> b.state]

\* next() until the state is None, n calls and then twice as many
RECURSIVE collect_from(_, _)
collect_from(state, n) ==
    LET a == drain(state, n)
    IN  IF a.state = None THEN a
        ELSE LET b == collect_from(a.state, 2 * n)
             IN  [items |-> a.items \o b.items, state |-> b.state]

\* Iterator::collect: next() until it returns None; [items, state].  The
\* calls are grouped in halves only to keep the evaluation shallow.
collect(state) == collect_from(state, 1)

\* ---------------------------------------------------------- bulk decoder

decode_buf_step_unchecked(bytes, st) ==
    IF st.inp >= Len(bytes)
    THEN [st EXCEPT !.ret = "Err"]
    ELSE
    LET head == bytes[st.inp + 1]
        inp1 == st.inp + 1
        nn == decode_len(head)
    IN  IF nn = None
        THEN [st EXCEPT !.inp = inp1, !.ret = "Ok"]
        ELSE
        LET n == nn[1]
            zpanic == st.trailing_zero /\ st.outpos + 1 > Len(st.output)
            out1 == IF st.trailing_zero /\ ~zpanic
                    THEN [st.output EXCEPT ![st.outpos + 1] = ZERO]
                    ELSE st.output
            pos1 == IF st.trailing_zero THEN st.outpos + 1 ELSE st.outpos
        IN  IF zpanic
            THEN [st EXCEPT !.inp = inp1, !.ret = "Panic"]
            ELSE IF n = 0
            THEN [st EXCEPT !.inp = inp1, !.output = out1, !.outpos = pos1,
                            !.trailing_zero = TRUE]
            ELSE IF Len(bytes) - inp1 < n \/ pos1 + n > Len(out1)
            THEN [st EXCEPT !.inp = inp1, !.output = out1, !.outpos = pos1,
                            !.ret = "Panic"]
            ELSE [st EXCEPT !.inp = inp1 + n,
                            !.output = [i \in 1 .. Len(out1) |->
                                          IF i > pos1 /\ i <= pos1 + n
                                          THEN bytes[inp1 + i - pos1]
                                          ELSE out1[i]],
                            !.outpos = pos1 + n,
                            !.trailing_zero = (n # MAX_RUN)]

\* One iteration of the while-let loop of decode_buf.  st.inp is how much
\* of the input has been consumed, st.outpos how much of the output has
\* been lopped off; st.ret is "running" until the function returns.
decode_buf_step(bytes, st) ==
    IF st.inp >= Len(bytes)
    THEN [st EXCEPT !.ret = "Err"]                \* loop ends: Truncated
    ELSE
    LET head == bytes[st.inp + 1]
        inp1 == st.inp + 1
        nn == decode_len(head)
    IN  IF nn = None
        THEN [st EXCEPT !.inp = inp1, !.ret = "Ok"]
        ELSE
        LET n == nn[1]
            \* output.split_at_mut(1) panics on an empty output
            zpanic == st.trailing_zero /\ st.outpos + 1 > Len(st.output)
            out1 == IF st.trailing_zero /\ ~zpanic
                    THEN [st.output EXCEPT ![st.outpos + 1] = ZERO]
                    ELSE st.output
            pos1 == IF st.trailing_zero THEN st.outpos + 1 ELSE st.outpos
        IN  IF zpanic
            THEN [st EXCEPT !.inp = inp1, !.ret = "Panic"]
            ELSE IF n = 0
            THEN [st EXCEPT !.inp = inp1, !.output = out1, !.outpos = pos1,
                            !.trailing_zero = TRUE]
            ELSE IF Len(bytes) - inp1 < n
            THEN [st EXCEPT !.inp = inp1, !.output = out1, !.outpos = pos1,
                            !.ret = "Err"]        \* break: Truncated
            ELSE IF pos1 + n > Len(out1)
            THEN [st EXCEPT !.inp = inp1, !.output = out1, !.outpos = pos1,
                            !.ret = "Panic"]      \* output.split_at_mut(n)
            ELSE [st EXCEPT !.inp = inp1 + n,
                            !.output = [i \in 1 .. Len(out1) |->
                                          IF i > pos1 /\ i <= pos1 + n
                                          THEN bytes[inp1 + i - pos1]
                                          ELSE out1[i]],
                            !.outpos = pos1 + n,
                            !.trailing_zero = (n # MAX_RUN)]

RECURSIVE decode_buf_loop(_, _)
decode_buf_loop(bytes, st) ==
    IF st.ret # "running" THEN st
    ELSE decode_buf_loop(bytes, decode_buf_step(bytes, st))

\* decode_buf(bytes, output): [ret, n, output]; ret is "Ok" (n the decoded
\* length), "Err" (CobsError::Truncated) or "Panic"
decode_buf(bytes, output) ==
    LET st == decode_buf_loop(bytes, [inp |-> 0, output |-> output,
                                      outpos |-> 0, trailing_zero |-> FALSE,
                                      ret |-> "running"])
    IN  [ret |-> st.ret,
         n |-> IF st.ret = "Ok" THEN st.outpos ELSE 0,
         output |-> st.output]

\* ------------------------------------------------------ in-place decoder

\* bytes.copy_within(src .. src + n, dest), both 0-based
copy_within(bytes, src, n, dest) ==
    [i \in 1 .. Len(bytes) |->
        IF i > dest /\ i <= dest + n THEN bytes[src + i - dest] ELSE bytes[i]]

decode_in_place_step_unchecked(d) ==
    LET len == Len(d.bytes)
        ok == [d EXCEPT !.pc = "done", !.ret = "Ok",
                        !.n = IF d.extra_zero THEN d.outpos - 1 ELSE d.outpos]
    IN  IF d.inpos >= len THEN ok
        ELSE
        LET nn == decode_len(d.bytes[d.inpos + 1])
        IN  IF nn = None THEN ok
            ELSE
            LET n == nn[1]
                moved == copy_within(d.bytes, d.inpos + 1, n, d.outpos)
                outpos1 == d.outpos + n
                extra_zero == (n # MAX_RUN)
            IN  IF len < d.inpos + 1 + n
                THEN [d EXCEPT !.pc = "done", !.ret = "Panic"]
                ELSE IF extra_zero /\ outpos1 >= len
                THEN [d EXCEPT !.pc = "done", !.ret = "Panic",
                               !.bytes = moved]
                ELSE [d EXCEPT !.bytes = IF extra_zero
                                         THEN [moved EXCEPT ![outpos1 + 1] = 0]
                                         ELSE moved,
                               !.inpos = d.inpos + 1 + n,
                               !.outpos = IF extra_zero THEN outpos1 + 1
                                          ELSE outpos1,
                               !.extra_zero = extra_zero]

decode_in_place_step_counts_zero(d) ==
    LET len == Len(d.bytes)
        ok == [d EXCEPT !.pc = "done", !.ret = "Ok", !.n = d.outpos]
    IN  IF d.inpos >= len THEN ok
        ELSE
        LET nn == decode_len(d.bytes[d.inpos + 1])
        IN  IF nn = None THEN ok
            ELSE
            LET n == nn[1]
                moved == copy_within(d.bytes, d.inpos + 1, n, d.outpos)
                outpos1 == d.outpos + n
                extra_zero == (n # MAX_RUN)
            IN  IF len < d.inpos + 1 + n
                THEN [d EXCEPT !.pc = "done", !.ret = "Err"]
                ELSE IF extra_zero /\ outpos1 >= len
                THEN [d EXCEPT !.pc = "done", !.ret = "Panic",
                               !.bytes = moved]
                ELSE [d EXCEPT !.bytes = IF extra_zero
                                         THEN [moved EXCEPT ![outpos1 + 1] = 0]
                                         ELSE moved,
                               !.inpos = d.inpos + 1 + n,
                               !.outpos = IF extra_zero THEN outpos1 + 1
                                          ELSE outpos1,
                               !.extra_zero = extra_zero]

\* One evaluation of the loop condition of decode_in_place and, when it
\* holds, of the loop body.  d is [pc, bytes, inpos, outpos, extra_zero,
\* ret, n]; pc is "loop" until the function returns.
decode_in_place_step(d) ==
    LET len == Len(d.bytes)
        ok == [d EXCEPT !.pc = "done", !.ret = "Ok",
                        !.n = IF d.extra_zero THEN d.outpos - 1 ELSE d.outpos]
    IN  IF d.inpos >= len THEN ok
        ELSE
        LET nn == decode_len(d.bytes[d.inpos + 1])
        IN  IF nn = None THEN ok                  \* break
            ELSE
            LET n == nn[1]
                moved == copy_within(d.bytes, d.inpos + 1, n, d.outpos)
                outpos1 == d.outpos + n
                extra_zero == (n # MAX_RUN)
            IN  IF len < d.inpos + 1 + n
                THEN [d EXCEPT !.pc = "done", !.ret = "Err"]
                ELSE IF extra_zero /\ outpos1 >= len
                THEN [d EXCEPT !.pc = "done", !.ret = "Panic",
                               !.bytes = moved]   \* bytes[outpos] = 0
                ELSE [d EXCEPT !.bytes = IF extra_zero
                                         THEN [moved EXCEPT ![outpos1 + 1] = 0]
                                         ELSE moved,
                               !.inpos = d.inpos + 1 + n,
                               !.outpos = IF extra_zero THEN outpos1 + 1
                                          ELSE outpos1,
                               !.extra_zero = extra_zero]

\* the state of decode_in_place(bytes) on entry
decode_in_place_entry(bytes) ==
    [pc |-> "loop", bytes |-> bytes, inpos |-> 0, outpos |-> 0,
     extra_zero |-> FALSE, ret |-> "running", n |-> 0]

\* ---------------------------------------------------- incremental decoder

\* Decoder::default(): no run in progress, no sentinel owed
Decoder_default == [remaining |-> 0, pending_zero |-> FALSE]

DecodeStatus_Append(b) == [tag |-> "Append", b |-> b]

DecodeStatus_Pending == [tag |-> "Pending"]

DecodeStatus_Done == [tag |-> "Done"]

\* Decoder::advance(&mut self, byte): [self, ret, status].  Inside a run the
\* byte is a decoded byte.  At a run boundary a zero ends the message and
\* resets the state; any other byte is an overhead byte, which yields the
\* sentinel owed by a preceding run shorter than MAX_RUN, if there is one.
advance(self, byte) ==
    IF self.remaining > 0
    THEN [self |-> [self EXCEPT !.remaining = self.remaining - 1],
          ret |-> "Ok", status |-> DecodeStatus_Append(byte)]
    ELSE IF byte = ZERO
    THEN [self |-> Decoder_default, ret |-> "Ok",
          status |-> DecodeStatus_Done]
    ELSE [self |-> [remaining |-> byte - 1,
                    pending_zero |-> (byte - 1 # MAX_RUN)],
          ret |-> "Ok",
          status |-> IF self.pending_zero THEN DecodeStatus_Append(ZERO)
                     ELSE DecodeStatus_Pending]

\* ----------------------------------------------------------------- inputs

\* byte values of the enumerated messages (0x00, 0x11, 0x22)
MsgBytes == { 0, 17, 34 }

ShortMsgs == SeqsUpTo(MsgBytes, MaxShortLen)

\* FIXTURES of tests/tests.rs
Fixtures ==
    { << >>, << 0 >>, << 0, 0 >>, << 17, 34, 0, 51 >>, << 17, 0, 0, 0 >> }

\* n zero-free bytes 01 02 .. FE FF 01 .., as the LONG_FIXTUREs are filled
Fill(n) == [i \in 1 .. n |-> ((i - 1) % 255) + 1]

Affixes == SeqsUpTo({ 0, 17 }, MaxAffix)

SpanLens == { k * MAX_RUN + d : k \in 1 .. MaxChunks, d \in { -1, 0, 1 } }

\* a zero-free span around a multiple of MAX_RUN, between short affixes
LongMsgs == { pre \o Fill(n) \o post : pre \in Affixes, n \in SpanLens,
                                       post \in Affixes }

Messages == ShortMsgs \cup Fixtures \cup LongMsgs

\* the indices (0-based) at which a run of the frame f starts, and its end
RECURSIVE Boundaries(_, _)
Boundaries(f, b) ==
    IF b >= Len(f) THEN { Len(f) }
    ELSE IF f[b + 1] = 0 THEN { b, Len(f) }
    ELSE { b } \cup Boundaries(f, b + f[b + 1])

\* the lengths of the proper prefixes of f that end near a run boundary
Cuts(f) ==
    LET bs == Boundaries(f, 0)
    IN  { c \in 0 .. Len(f) - 1 :
            \E b \in bs : c - b >= 0 - CutSlack /\ c - b <= CutSlack }

\* byte values of the arbitrary decoder inputs
FuzzBytes == { 0, 1, 2, 3, 255 }

\* arbitrary bytes: everything short, and full-length runs with a short tail
FuzzInputs ==
    SeqsUpTo(FuzzBytes, MaxFuzzLen)
    \cup { << 255 >> \o Fill(n) \o t :
             n \in { MAX_RUN - 1, MAX_RUN }, t \in SeqsUpTo(FuzzBytes, MaxFuzzLen - 1) }

\* value the output buffers are filled with before encode_buf is called
OutFill == { 0, 222 }

\* lengths of the output buffers handed to encode_buf for a message of
\* raw_len bytes: around max_encoded_len(raw_len)
OutLens(raw_len) ==
    { l \in max_encoded_len(raw_len) - MaxUnder
            .. max_encoded_len(raw_len) + MaxOver : l >= 0 }

\* raw lengths handed to max_encoded_len: the small ones and the largest
RawLens == 0 .. MaxRawLen \cup (USIZE - 1 - MaxRawLen) .. (USIZE - 1)

\* ------------------------------------------------------------------ state

VARIABLES
    data,       \* the raw message handed to the encoders
    buf,        \* the call encode_buf(data, &mut out): [called, panic, output, n]
    state,      \* the Option<EncodeState> captured by encode_iter(data)
    item,       \* what the last call of the iterator's next() returned
    collected,  \* the bytes the iterator has yielded so far
    wire,       \* the bytes handed to the decoders, once chosen
    dec,        \* the call decode_buf(wire, &mut out): [called, ret, n, output]
    dip,        \* the call decode_in_place(&mut wire.to_vec())
    debug_assertions,   \* the build: are debug_assert!s compiled in
    size,       \* the call max_encoded_len(raw_len) on a 16-bit usize
    inc,        \* the incremental Decoder and what advance() has returned
    tr          \* the call take_run(bytes): [called, bytes, run, rest, panic]

vars == << data, buf, state, item, collected, wire, dec, dip,
           debug_assertions, size, inc, tr >>

dec_idle == [called |-> FALSE, ret |-> "none", n |-> 0, output |-> << >>]

dip_idle == [pc |-> "idle", bytes |-> << >>, inpos |-> 0, outpos |-> 0,
             extra_zero |-> FALSE, ret |-> "none", n |-> 0]

size_idle == [called |-> FALSE, raw_len |-> 0, value |-> 0,
              overflow |-> FALSE, panic |-> FALSE]

tr_idle == [called |-> FALSE, bytes |-> << >>, run |-> << >>, rest |-> None,
            panic |-> FALSE]

inc_idle == [decoder |-> Decoder_default, fed |-> 0, appended |-> << >>,
             pending |-> 0, done |-> 0, last |-> None, ok |-> TRUE]

\* the encoded form encode_buf left in its output: &out[..n]
BufFrame == SubSeq(buf.output, 1, buf.n)

Init ==
    /\ data \in Messages
       \* let mut out = vec![0; max_encoded_len(data.len())]
    /\ buf = [called |-> FALSE, panic |-> FALSE,
              output |-> Vec(0, max_encoded_len(Len(data))), n |-> 0]
    /\ state = Some(Begin(data))
    /\ item = None
    /\ collected = << >>
    /\ wire = None
    /\ dec = dec_idle
    /\ dip = dip_idle
       \* cargo test and the fuzz targets build with debug assertions on
    /\ debug_assertions = TRUE
    /\ size = size_idle
    /\ inc = inc_idle
    /\ tr = tr_idle

\* ---------------------------------------------------------------- actions

\* let n = encode_buf(data, &mut out)
EncodeBuf ==
    /\ ~buf.called
    /\ LET r == encode_buf_call(debug_assertions, data, buf.output)
       IN  buf' = [called |-> TRUE, panic |-> r.panic, output |-> r.output,
                   n |-> r.n]
    /\ UNCHANGED << data, state, item, collected, wire, dec, dip,
                 debug_assertions, size, inc, tr >>

\* one call of next() on the iterator
IterNext ==
    /\ LET r == encode_iter_next(state)
       IN  /\ state' = r.state
           /\ item' = r.item
           /\ collected' = collected \o r.item
    /\ UNCHANGED << data, buf, wire, dec, dip,
                 debug_assertions, size, inc, tr >>

\* let out1: Vec<u8> = encode_iter(data).collect()
Collect ==
    /\ state # None
    /\ LET r == collect(state)
       IN  /\ state' = r.state
           /\ item' = None
           /\ collected' = collected \o r.items
    /\ UNCHANGED << data, buf, wire, dec, dip,
                 debug_assertions, size, inc, tr >>

\* the frames of both encoders and their truncations
Sendable ==
    UNION { { SubSeq(f, 1, c) : c \in Cuts(f) \cup { Len(f) } } :
            f \in { BufFrame, collected } }

\* the harness hands a frame, or a truncation of one, to the decoders
Transmit ==
    /\ wire = None
    /\ buf.called /\ ~buf.panic
    /\ state = None
    /\ \E w \in Sendable : wire' = Some(w)
    /\ UNCHANGED << data, buf, state, item, collected, dec, dip,
                 debug_assertions, size, inc, tr >>

\* let mut out = wire.to_vec(); decode_buf(wire, &mut out)
DecodeBuf ==
    /\ wire # None
    /\ ~dec.called
    /\ LET r == decode_buf(wire[1], wire[1])
       IN  dec' = [called |-> TRUE, ret |-> r.ret, n |-> r.n,
                   output |-> r.output]
    /\ UNCHANGED << data, buf, state, item, collected, wire, dip,
                 debug_assertions, size, inc, tr >>

\* entry of decode_in_place on a copy of the wire bytes; the harness calls
\* it after decode_buf, so that both results are there to compare
DecodeInPlaceCall ==
    /\ wire # None
    /\ dec.called
    /\ dip.pc = "idle"
    /\ dip' = decode_in_place_entry(wire[1])
    /\ UNCHANGED << data, buf, state, item, collected, wire, dec,
                 debug_assertions, size, inc, tr >>

\* one iteration of the loop of decode_in_place, or its return
DecodeInPlaceStep ==
    /\ dip.pc = "loop"
    /\ dip' = decode_in_place_step(dip)
    /\ UNCHANGED << data, buf, state, item, collected, wire, dec,
                 debug_assertions, size, inc, tr >>

Next ==
    \/ EncodeBuf
    \/ Collect
    \/ Transmit
    \/ DecodeBuf
    \/ DecodeInPlaceCall
    \/ DecodeInPlaceStep

Spec == Init /\ [][Next]_vars

\* The decoders alone, on arbitrary bytes (fuzzing/src/bin/decode.rs).
InitFuzz ==
    /\ data = << >>
    /\ buf = [called |-> FALSE, panic |-> FALSE,
              output |-> Vec(0, max_encoded_len(0)), n |-> 0]
    /\ state = Some(Begin(data))
    /\ item = None
    /\ collected = << >>
    /\ wire \in { Some(w) : w \in FuzzInputs }
    /\ dec = dec_idle
    /\ dip = dip_idle
    /\ debug_assertions = TRUE
    /\ size = size_idle
    /\ inc = inc_idle
    /\ tr = tr_idle

NextFuzz ==
    \/ DecodeBuf
    \/ DecodeInPlaceCall
    \/ DecodeInPlaceStep

SpecFuzz == InitFuzz /\ [][NextFuzz]_vars

\* The lazy encoder alone, one next() at a time.
NextIter == IterNext

SpecIter == Init /\ [][NextIter]_vars

\* encode_buf alone, in either build, on output buffers of any content that
\* are shorter than, as long as or longer than max_encoded_len.
InitEnc ==
    /\ data \in Messages
    /\ \E l \in OutLens(Len(data)), v \in OutFill :
           buf = [called |-> FALSE, panic |-> FALSE, output |-> Vec(v, l),
                  n |-> 0]
    /\ state = Some(Begin(data))
    /\ item = None
    /\ collected = << >>
    /\ wire = None
    /\ dec = dec_idle
    /\ dip = dip_idle
    /\ debug_assertions \in BOOLEAN
    /\ size = size_idle
    /\ inc = inc_idle
    /\ tr = tr_idle

NextEnc == EncodeBuf

SpecEnc == InitEnc /\ [][NextEnc]_vars

\* max_encoded_len(raw_len); an overflowing addition panics where overflow
\* checks are compiled in (the builds with debug assertions) and wraps
\* elsewhere
MaxEncodedLen ==
    /\ ~size.called
    /\ LET r == max_encoded_len_usize(size.raw_len)
       IN  size' = [called |-> TRUE, raw_len |-> size.raw_len,
                    value |-> r.value, overflow |-> r.overflow,
                    panic |-> debug_assertions /\ r.overflow]
    /\ UNCHANGED << data, buf, state, item, collected, wire, dec, dip,
                 debug_assertions, inc, tr >>

\* The size model alone, on small and on the largest raw lengths.
InitSize ==
    /\ data = << >>
    /\ buf = [called |-> FALSE, panic |-> FALSE,
              output |-> Vec(0, max_encoded_len(0)), n |-> 0]
    /\ state = Some(Begin(data))
    /\ item = None
    /\ collected = << >>
    /\ wire = None
    /\ dec = dec_idle
    /\ dip = dip_idle
    /\ debug_assertions \in BOOLEAN
    /\ \E raw_len \in RawLens : size = [size_idle EXCEPT !.raw_len = raw_len]
    /\ inc = inc_idle
    /\ tr = tr_idle

NextSize == MaxEncodedLen

SpecSize == InitSize /\ [][NextSize]_vars

\* decoder.advance(byte) on the next byte of the frame the lazy encoder
\* produced
Advance ==
    /\ state = None
    /\ inc.fed < Len(collected)
    /\ LET r == advance(inc.decoder, collected[inc.fed + 1])
       IN  inc' = [decoder |-> r.self,
                   fed |-> inc.fed + 1,
                   appended |-> IF r.status.tag = "Append"
                                THEN Append(inc.appended, r.status.b)
                                ELSE inc.appended,
                   pending |-> IF r.status.tag = "Pending"
                               THEN inc.pending + 1 ELSE inc.pending,
                   done |-> IF r.status.tag = "Done"
                            THEN inc.done + 1 ELSE inc.done,
                   last |-> Some(r.status.tag),
                   ok |-> inc.ok /\ r.ret = "Ok"]
    /\ UNCHANGED << data, buf, state, item, collected, wire, dec, dip,
                 debug_assertions, size, tr >>

\* The incremental decoder, fed one byte at a time the frame of a message.
NextInc ==
    \/ Collect
    \/ Advance

SpecInc == Init /\ [][NextInc]_vars

\* take_run(bytes); its debug assertion panics where it is compiled in and
\* fails
TakeRun ==
    /\ ~tr.called
    /\ LET r == take_run(tr.bytes)
       IN  tr' = [called |-> TRUE, bytes |-> tr.bytes, run |-> r.run,
                  rest |-> r.rest,
                  panic |-> debug_assertions
                            /\ ~take_run_debug_assert(tr.bytes)]
    /\ UNCHANGED << data, buf, state, item, collected, wire, dec, dip,
                 debug_assertions, size, inc >>

\* take_run alone, in either build, on every enumerated message.
InitTakeRun ==
    /\ data = << >>
    /\ buf = [called |-> FALSE, panic |-> FALSE,
              output |-> Vec(0, max_encoded_len(0)), n |-> 0]
    /\ state = Some(Begin(data))
    /\ item = None
    /\ collected = << >>
    /\ wire = None
    /\ dec = dec_idle
    /\ dip = dip_idle
    /\ debug_assertions \in BOOLEAN
    /\ size = size_idle
    /\ inc = inc_idle
    /\ \E bytes \in Messages : tr = [tr_idle EXCEPT !.bytes = bytes]

NextTakeRun == TakeRun

SpecTakeRun == InitTakeRun /\ [][NextTakeRun]_vars

\* ----------------------------------------------------------------- claims

ZeroFree(s) == \A i \in 1 .. Len(s) : s[i] # ZERO

HasZero(s) == \E i \in 1 .. Len(s) : s[i] = ZERO

IsProperPrefix(p, f) == Len(p) < Len(f) /\ p = SubSeq(f, 1, Len(p))

BufDone == buf.called

IterDone == state = None

\* the decoders were given the whole frame of encode_buf / of encode_iter
WireIsBufFrame == BufDone /\ wire = Some(BufFrame)

WireIsIterFrame == IterDone /\ wire = Some(collected)

\* the decoders were given a proper prefix of one of the two frames
WireIsTruncated ==
    /\ wire # None
    /\ \/ BufDone /\ IsProperPrefix(wire[1], BufFrame)
       \/ IterDone /\ IsProperPrefix(wire[1], collected)

\* C1: decode_buf on the frame written by encode_buf returns Ok(len(m)) and
\* the decoded bytes equal m, for every raw message m.
C1_RoundTripBufBuf ==
    (WireIsBufFrame /\ dec.called) =>
        /\ dec.ret = "Ok"
        /\ dec.n = Len(data)
        /\ SubSeq(dec.output, 1, dec.n) = data

\* C2: decode_in_place on the frame written by encode_buf returns Ok(k) with
\* k = len(m) and the first k bytes of the buffer equal to m.
C2_RoundTripBufInPlace ==
    (WireIsBufFrame /\ dip.pc = "done") =>
        /\ dip.ret = "Ok"
        /\ dip.n = Len(data)
        /\ SubSeq(dip.bytes, 1, dip.n) = data

\* C3: the bytes yielded by encode_iter(m) are, in content and in length,
\* the first n bytes written by encode_buf(m), n its return value.
C3_EncodersAgree ==
    (BufDone /\ IterDone) => (~buf.panic /\ collected = BufFrame)

\* C4: decode_buf on the collected bytes of encode_iter(m) returns
\* Ok(len(m)) and the decoded bytes equal m.
C4_RoundTripIterBuf ==
    (WireIsIterFrame /\ dec.called) =>
        /\ dec.ret = "Ok"
        /\ dec.n = Len(data)
        /\ SubSeq(dec.output, 1, dec.n) = data

\* a full run followed by a zero went through encode_iter and decode_buf
C4_Witness ==
    /\ WireIsIterFrame /\ dec.called /\ dec.ret = "Ok"
    /\ Len(data) > MAX_RUN
    /\ ZeroFree(SubSeq(data, 1, MAX_RUN))
    /\ data[MAX_RUN + 1] = ZERO

\* C5: the count returned by encode_buf(m) and the number of bytes yielded
\* by encode_iter(m) are each at most max_encoded_len(len(m)); a buffer of
\* that many bytes suffices (encode_buf does not panic on it).
C5_SizeBound ==
    /\ BufDone => (~buf.panic /\ buf.n <= max_encoded_len(Len(data)))
    /\ IterDone => Len(collected) <= max_encoded_len(Len(data))

\* both encoders ran on a message with a zero after a full run, and the
\* iterator used the whole bound
C5_Witness ==
    /\ BufDone /\ IterDone
    /\ Len(data) > MAX_RUN /\ HasZero(data)
    /\ Len(collected) = max_encoded_len(Len(data))

\* C6: for a message without a zero byte encode_buf returns exactly
\* max_encoded_len(len(m)).
C6_TightWorstCase ==
    (BufDone /\ ZeroFree(data)) =>
        (~buf.panic /\ buf.n = max_encoded_len(Len(data)))

\* 254 zero-free bytes were encoded into 256
C6_Witness ==
    /\ BufDone /\ ZeroFree(data) /\ Len(data) = MAX_RUN
    /\ buf.n = MAX_RUN + 2

\* the overhead bytes of f, followed from its first byte, are all in
\* 1 ..= 255 and lead exactly to its last byte
RECURSIVE OverheadChainEndsAt(_, _)
OverheadChainEndsAt(f, b) ==
    IF b + 1 >= Len(f) THEN b + 1 = Len(f)
    ELSE /\ f[b + 1] \in 1 .. 255
         /\ OverheadChainEndsAt(f, b + f[b + 1])

\* zero exactly once, as the final byte; overhead and run bytes non-zero
SentinelOnlyLast(f) ==
    /\ Len(f) >= 2
    /\ f[Len(f)] = ZERO
    /\ \A i \in 1 .. Len(f) - 1 : f[i] \in 1 .. 255
    /\ OverheadChainEndsAt(f, 0)

\* C7: the frame of encode_buf (output[0..n)) and the sequence of
\* encode_iter contain zero exactly once, as the final byte; every overhead
\* byte is in 1..=255 and every run byte is non-zero.
C7_SentinelPlacement ==
    /\ BufDone => (~buf.panic /\ SentinelOnlyLast(BufFrame))
    /\ IterDone => SentinelOnlyLast(collected)

\* both encoders ran on a message with an empty run and a full run
C7_Witness ==
    /\ BufDone /\ IterDone
    /\ Len(data) > MAX_RUN
    /\ data[1] = ZERO
    /\ collected[1] = 1 /\ collected[2] = 255

\* C8: decode_buf on a proper prefix (the empty one included) of a valid
\* frame returns Err(Truncated), without panicking.
C8_TruncatedBuf ==
    (WireIsTruncated /\ dec.called) => dec.ret = "Err"

\* decode_buf was given a frame cut at a run boundary, after a full run and
\* before the terminator
C8_Witness ==
    /\ WireIsTruncated /\ dec.called /\ dec.ret = "Err"
    /\ Len(wire[1]) = MAX_RUN + 1
    /\ wire[1][1] = 255

\* C9: decode_in_place on a proper prefix of a valid frame returns
\* Err(Truncated), as decode_buf does on the same input.
C9_TruncatedInPlace ==
    (WireIsTruncated /\ dec.called /\ dip.pc = "done") =>
        (dip.ret = "Err" /\ dec.ret = "Err")

\* C10: on any byte sequence, with an output buffer of the same length,
\* decode_buf finishes without panic and returns Err(Truncated) or Ok(k)
\* with k <= len(input).
C10_DecodeBufRobust ==
    dec.called =>
        /\ dec.ret \in { "Ok", "Err" }
        /\ dec.ret = "Ok" => dec.n <= Len(wire[1])

\* decode_buf accepted garbage with a zero inside a claimed run
C10_Witness ==
    /\ dec.called /\ dec.ret = "Ok"
    /\ wire = Some(<< 3, 0, 1, 0 >>)
    /\ dec.n = 2

\* the 0-based index of the first zero byte of s
FirstZero(s) == MinOf({ i \in 1 .. Len(s) : s[i] = ZERO }) - 1

C12_RestUnchanged ==
    [][(~buf.called /\ buf'.called /\ ~buf'.panic) =>
          /\ Len(buf'.output) = Len(buf.output)
          /\ \A i \in buf'.n + 1 .. Len(buf.output) :
                buf'.output[i] = buf.output[i]]_vars

C12_Witness ==
    /\ BufDone /\ ~buf.panic
    /\ buf.n + 2 <= Len(buf.output)
    /\ \A i \in buf.n + 1 .. Len(buf.output) : buf.output[i] = 222

\* FIXTURES of tests/tests.rs: the raw messages with their encoded forms
FixtureFrames ==
    { << << >>, << 1, 0 >> >>,
      << << 0 >>, << 1, 1, 0 >> >>,
      << << 0, 0 >>, << 1, 1, 1, 0 >> >>,
      << << 17, 34, 0, 51 >>, << 3, 17, 34, 2, 51, 0 >> >>,
      << << 17, 0, 0, 0 >>, << 2, 17, 1, 1, 1, 0 >> >> }

\* the number of non-zero bytes of s from index j up to the next zero byte or
\* the end of s
RunLenFrom(s, j) ==
    MinOf({ k \in j .. Len(s) + 1 : k = Len(s) + 1 \/ s[k] = ZERO }) - j

\* byte stuffing of a message shorter than MAX_RUN, as the wire format says
\* it: a zero is prepended and one appended, and every zero but the appended
\* one is replaced by the length, plus one, of the run that follows it
StuffShort(m) ==
    LET s == << 0 >> \o m
    IN  [i \in 1 .. Len(s) + 1 |->
            IF i = Len(s) + 1 THEN 0
            ELSE IF s[i] = ZERO THEN RunLenFrom(s, i + 1) + 1
            ELSE s[i]]

\* C13: both encoders map each fixture message to the bytes the tests list
\* for it, and every message shorter than 254 bytes to its stuffed form:
\* one overhead byte first, every zero byte replaced by the overhead byte
\* (run length + 1) of the run after it, one zero last.
C13_ShortWireFormat ==
    /\ \A fx \in FixtureFrames :
          data = fx[1] =>
              /\ BufDone => (~buf.panic /\ BufFrame = fx[2])
              /\ IterDone => collected = fx[2]
    /\ Len(data) < MAX_RUN =>
          /\ BufDone => (~buf.panic /\ BufFrame = StuffShort(data))
          /\ IterDone => collected = StuffShort(data)

\* both encoders ran on the fixture 11 22 00 33
C13_Witness ==
    /\ BufDone /\ IterDone
    /\ data = << 17, 34, 0, 51 >>
    /\ collected = << 3, 17, 34, 2, 51, 0 >>
    /\ BufFrame = collected

\* a zero-free span as the wire format lays it out: chunks of exactly
\* MAX_RUN bytes behind the overhead byte FF, then the remainder, if there
\* is one, behind its length plus one
RECURSIVE Chunked(_)
Chunked(m) ==
    IF Len(m) <= MAX_RUN THEN << Len(m) + 1 >> \o m
    ELSE << 255 >> \o SubSeq(m, 1, MAX_RUN)
         \o Chunked(SubSeq(m, MAX_RUN + 1, Len(m)))

\* C14: both encoders map 254 non-zero bytes to FF, the bytes, 00; 255
\* non-zero bytes to FF, the first 254, 02, the last byte, 00; and
\* 00 01 .. FE to 01 FF 01 .. FE 00.  A zero-free message longer than 254
\* bytes comes out as chunks of exactly 254 bytes and then the remainder.
C14_FullRunBoundary ==
    LET both(f) == /\ BufDone => (~buf.panic /\ BufFrame = f)
                   /\ IterDone => collected = f
    IN  /\ (ZeroFree(data) /\ Len(data) = MAX_RUN) =>
              both(<< 255 >> \o data \o << 0 >>)
        /\ (ZeroFree(data) /\ Len(data) = MAX_RUN + 1) =>
              both(<< 255 >> \o SubSeq(data, 1, MAX_RUN)
                   \o << 2, data[MAX_RUN + 1], 0 >>)
        /\ data = << 0 >> \o Fill(MAX_RUN) =>
              both(<< 1, 255 >> \o Fill(MAX_RUN) \o << 0 >>)
        /\ (ZeroFree(data) /\ Len(data) > MAX_RUN) =>
              both(Chunked(data) \o << 0 >>)

\* both encoders ran on 01 .. FF, the 255 non-zero bytes of LONG_FIXTURE_3
C14_Witness ==
    /\ BufDone /\ IterDone
    /\ data = Fill(MAX_RUN + 1)
    /\ Len(collected) = MAX_RUN + 4
    /\ collected[MAX_RUN + 2] = 2
    /\ BufFrame[MAX_RUN + 3] = 255

\* the least q with a <= q * b, for a >= 0 and b > 0
CeilDiv(a, b) ==
    CHOOSE q \in (a \div b) .. (a \div b) + 1 : (q - 1) * b < a /\ a <= q * b

\* raw_len + ceil(raw_len / 254) + 1, in unbounded arithmetic
FramedLen(raw_len) == raw_len + CeilDiv(raw_len, MAX_RUN) + 1

\* C15: max_encoded_len(0) is 2; for every raw_len > 0 whose result fits
\* usize, max_encoded_len(raw_len) is raw_len + ceil(raw_len / 254) + 1 and
\* none of its additions overflows, so that it neither panics nor wraps; and
\* the function is strictly increasing wherever the results fit.
C15_SizeFormula ==
    size.called =>
        LET raw_len == size.raw_len
        IN  /\ raw_len = 0 => (size.value = 2 /\ ~size.overflow)
            /\ (raw_len > 0 /\ FramedLen(raw_len) < USIZE) =>
                  /\ ~size.overflow
                  /\ ~size.panic
                  /\ size.value = FramedLen(raw_len)
                  /\ size.value = raw_len + (raw_len + 253) \div 254 + 1
            /\ (raw_len + 1 < USIZE /\ FramedLen(raw_len + 1) < USIZE) =>
                  max_encoded_len_usize(raw_len + 1).value > size.value

\* the largest raw length whose result fits: the result is usize::MAX
C15_Witness ==
    /\ size.called
    /\ ~size.overflow
    /\ size.value = USIZE - 1
    /\ max_encoded_len_usize(size.raw_len + 1).overflow

IsPrefix(p, s) == Len(p) <= Len(s) /\ p = SubSeq(s, 1, Len(p))

\* C16: a Decoder in its default state, fed one byte per call of advance the
\* frame of a message m, returns Ok on every call; the bytes of its Append
\* results are, in order, the bytes of m; every other byte before the last
\* gives Pending; and Done comes exactly once, on the terminating zero.
C16_IncrementalDecode ==
    (IterDone /\ inc.fed > 0) =>
        /\ inc.ok
        /\ IsPrefix(inc.appended, data)
        /\ inc.fed < Len(collected) =>
              /\ inc.done = 0
              /\ inc.last \in { Some("Append"), Some("Pending") }
        /\ inc.fed = Len(collected) =>
              /\ inc.last = Some("Done")
              /\ inc.done = 1
              /\ inc.appended = data
              /\ inc.pending = Len(collected) - 1 - Len(data)

\* the whole frame of a message with a zero and a full run was fed
C16_Witness ==
    /\ IterDone
    /\ inc.fed = Len(collected)
    /\ inc.last = Some("Done")
    /\ Len(data) > MAX_RUN /\ HasZero(data)
    /\ inc.appended = data
    /\ inc.pending >= 2

\* C17: whenever output.len() < max_encoded_len(bytes.len()), encode_buf
\* panics instead of returning a count, whether or not the debug assertion
\* is compiled in.
C17_UndersizedFatal ==
    (BufDone /\ Len(buf.output) < max_encoded_len(Len(data))) => buf.panic

\* C18: on every input, at every iteration of decode_in_place and at its
\* return, outpos <= inpos <= bytes.len(); no read, copy or zero write is
\* out of bounds (nothing panics); and the input not yet read is as it was
\* handed in, so no write has landed on an unread index.
C18_CursorInvariant ==
    dip.pc # "idle" =>
        /\ dip.ret # "Panic"
        /\ dip.outpos <= dip.inpos
        /\ dip.inpos <= Len(dip.bytes)
        /\ Len(dip.bytes) = Len(wire[1])
        /\ SubSeq(dip.bytes, dip.inpos + 1, Len(dip.bytes))
              = SubSeq(wire[1], dip.inpos + 1, Len(wire[1]))

\* in the middle of an input, after a short run and its zero were written
\* right up to the input cursor
C18_Witness ==
    /\ dip.pc = "loop"
    /\ dip.inpos > 0
    /\ dip.outpos = dip.inpos
    /\ dip.inpos < Len(dip.bytes)
    /\ dip.bytes # wire[1]

\* C19: whenever decode_buf returns Ok(k) on an input, decode_in_place on a
\* copy of that input returns Ok(k) too, and the first k bytes of the two
\* outputs are the same: the zero written after a final run shorter than 254
\* is not counted, and none is written after a full run.
C19_DecodersAgree ==
    (dec.called /\ dec.ret = "Ok" /\ dip.pc = "done") =>
        /\ dip.ret = "Ok"
        /\ dip.n = dec.n
        /\ SubSeq(dip.bytes, 1, dip.n) = SubSeq(dec.output, 1, dec.n)

\* both decoders accepted an input with a full run, then a zero between two
\* empty runs, the final run being shorter than 254
C19_Witness ==
    /\ dec.called /\ dec.ret = "Ok"
    /\ dip.pc = "done" /\ dip.ret = "Ok"
    /\ dip.extra_zero
    /\ wire[1][1] = 255
    /\ dec.n = MAX_RUN + 1
    /\ dec.output[dec.n] = ZERO

\* what one call of next() on the lazy encoder may do
C20_Step ==
    /\ state # None =>
          /\ item' # None
          /\ collected' = Append(collected, item'[1])
          /\ (item'[1] = ZERO) <=> (state = Some(End))
          /\ (state' = None) <=> (state = Some(End))
    /\ state = None =>
          /\ item' = None
          /\ state' = None
          /\ collected' = collected

\* C20: every call of next() before exhaustion yields exactly one byte; the
\* encoder is exhausted after at most max_encoded_len(len(m)) calls, having
\* passed through End; the zero byte is yielded once, from End, as the last
\* item; and from then on every call of next() returns None.
C20_LifeCycle ==
    /\ [][C20_Step]_vars
    /\ [](state # None => Len(collected) < max_encoded_len(Len(data)))

\* the encoder of a long message was called again after it had yielded its
\* terminator
C20_Witness ==
    /\ state = None
    /\ item = None
    /\ Len(collected) > MAX_RUN
    /\ collected[Len(collected)] = ZERO
    /\ ZeroFree(SubSeq(collected, 1, Len(collected) - 1))

\* C21: take_run(bytes) returns (run, rest) where run is a zero-free prefix
\* of bytes of at most 254 bytes; rest is None exactly when run is all of
\* bytes; when run is shorter than 254 and bytes go on, the byte after run
\* is zero (the debug assertion does not fail) and rest is what follows that
\* zero; when run has 254 bytes and bytes go on, rest is all that follows
\* run, a leading zero included.
C21_TakeRunPost ==
    tr.called =>
        LET n == Len(tr.run)
            len == Len(tr.bytes)
        IN  /\ ~tr.panic
            /\ take_run_debug_assert(tr.bytes)
            /\ n <= MAX_RUN
            /\ IsPrefix(tr.run, tr.bytes)
            /\ ZeroFree(tr.run)
            /\ (tr.rest = None) <=> (tr.run = tr.bytes)
            /\ (n < MAX_RUN /\ n < len) =>
                  /\ tr.bytes[n + 1] = ZERO
                  /\ tr.rest = Some(SubSeq(tr.bytes, n + 2, len))
            /\ (n = MAX_RUN /\ n < len) =>
                  tr.rest = Some(SubSeq(tr.bytes, n + 1, len))

\* take_run, with debug assertions on, took a full run off bytes that go on
\* with a zero, and left the zero in rest
C21_Witness ==
    /\ tr.called
    /\ debug_assertions
    /\ Len(tr.run) = MAX_RUN
    /\ tr.rest # None
    /\ tr.rest[1] # << >>
    /\ tr.rest[1][1] = ZERO

====
